---- MODULE Spec2Model ----
(***************************************************************************)
(* Model of BillingIntegration (src/integration/billing/                   *)
(* BillingIntegration.ts): the user sweep, the invoice sweep and the       *)
(* charge sweep of one tenant, run against a fallible billing provider and *)
(* a fallible storage layer.                                               *)
(*                                                                         *)
(* A sweep is a sequence of steps: one step up to the first loop, one step *)
(* per item of a loop, one step for the tail. Every fallible call of a     *)
(* step may throw: the step's parameter f names the call that throws       *)
(* ("none": no call throws).                                               *)
(***************************************************************************)
EXTENDS Integers, Sequences, FiniteSets, TLC

\* ---------------------------------------------------------------- bounds
NumUsers == 2      \* local users of the tenant
NumInvoices == 2   \* invoices the provider ever issues
MaxItems == 2      \* largest nbrOfItems of a provider invoice
MaxChanged == 2    \* longest "changed since" list the provider returns
MaxClock == 2      \* sweeps started (the clock ticks once per sweep)
MaxEvents == 2     \* changes made in the provider by others than the sweeps
NumThreads == 2    \* sweeps of the tenant that run at the same time

UserIDs == 1..NumUsers
Threads == 1..NumThreads

\* null / undefined of an identifier or of a date
NoID == 0
NoDate == 0

\* ------------------------------------------------------------ data types
\* User.billingData; exists = FALSE is a user without billingData
BillingData(c, e, s) ==
    [exists |-> TRUE, customerID |-> c, hasSynchroError |-> e,
     invoicesLastSynchronizedOn |-> s]

NoBillingData ==
    [exists |-> FALSE, customerID |-> NoID, hasSynchroError |-> FALSE,
     invoicesLastSynchronizedOn |-> NoDate]

\* BillingInvoice, local or of the provider; exists = FALSE is no invoice
NoInvoice ==
    [exists |-> FALSE, invoiceID |-> NoID, customerID |-> NoID, userID |-> NoID,
     nbrOfItems |-> 0, downloadable |-> FALSE, status |-> "none"]

\* BillingUserSynchronizeAction / BillingChargeInvoiceAction
NewActionsDone == [inSuccess |-> 0, inError |-> 0]

NoResult ==
    [op |-> "none", outcome |-> "none", tally |-> NewActionsDone, fault |-> "none",
     calls |-> <<>>]

\* Transaction, as far as the checks read it: userID, user (with its
\* billingData), chargeBox, and billingData (with its invoiceID); exists =
\* FALSE is an absent object
TransactionUser(bd) == [exists |-> TRUE, billingData |-> bd]

NoTransactionUser == [exists |-> FALSE, billingData |-> NoBillingData]

TransactionBillingData(i) == [exists |-> TRUE, invoiceID |-> i]

NoTransactionBillingData == [exists |-> FALSE, invoiceID |-> NoID]

NoTransaction ==
    [userID |-> NoID, user |-> NoTransactionUser, chargeBox |-> FALSE,
     billingData |-> NoTransactionBillingData]

\* the transactions the checks are given
Transactions ==
    [userID : UserIDs \cup {NoID},
     user : {NoTransactionUser}
            \cup {TransactionUser(bd) :
                     bd \in {NoBillingData}
                            \cup {BillingData(c, FALSE, NoDate) :
                                     c \in UserIDs \cup {NoID}}},
     chargeBox : BOOLEAN,
     billingData : {NoTransactionBillingData}
                   \cup {TransactionBillingData(i) : i \in 0..NumInvoices}]

NoGuard == [op |-> "none", outcome |-> "none"]

\* sendInvoiceToUser when it is not running
NotSending == [pc |-> "idle", invoice |-> NoID, outcome |-> "none", fault |-> "none"]

\* a sweep that runs at the same time as another one: the operation, the
\* position in it, the items left, and its local variables
IdleThread ==
    [op |-> "none", pc |-> "idle", loop |-> "none", todo |-> <<>>,
     actionsDone |-> NewActionsDone,
     user |-> NoID, billingData |-> NoBillingData, exists |-> FALSE,
     customerID |-> NoID,
     invoiceInBilling |-> NoInvoice, invoice |-> NoInvoice, localID |-> NoID,
     billingSettings |-> [usersLastSynchronizedOn |-> NoDate,
                          invoicesLastSynchronizedOn |-> NoDate]]

VARIABLES
    users,        \* storage: [UserIDs -> billingData of the user]
    invoices,     \* storage: sequence of local invoices, the index is the local id
    documents,    \* storage: set of <<local invoice id, nbrOfItems of the document>>
    settings,     \* storage: the billing settings (the two watermarks)
    customers,    \* provider: sequence of owners, the index is the customerID
    pinvoices,    \* provider: sequence of invoices, the index is the invoiceID
    now,          \* the clock read by new Date()
    pc,           \* position of the running sweep, "idle" when none runs
    actionsDone,  \* the running sweep's tally
    todo,         \* the items the running loop has still to process
    scopeUser,    \* synchronizeInvoices(user): the user's id, NoID when unscoped
    scopeData,    \* synchronizeInvoices(user): the billingData of the user object
    result,       \* what the last sweep gave its caller
    atStart,      \* history: the stores when the sweep started
    log,          \* history: one entry per item the sweep has processed
    created,      \* history: createUser successes per user since the last
                  \*          provider-side change
    events,       \* history: the provider-side changes so far
    transaction,  \* the Transaction given to checkStartTransaction /
                  \* checkStopTransaction
    guard,        \* what the last check of the transaction gave its caller
    threads,      \* overlapping sweeps: the position and the local variables
                  \* of each sweep
    sending,      \* sendInvoiceToUser: its position, its invoice and what it
                  \* gave its caller
    notifications \* the notification of each invoice, as the notification
                  \* framework has it

vars == <<users, invoices, documents, settings, customers, pinvoices, now, pc,
          actionsDone, todo, scopeUser, scopeData, result, atStart, log, created,
          events, transaction, guard, threads, sending, notifications>>

\* what the sweeps that run one after the other never touch
aside == <<transaction, guard, threads, sending, notifications>>

\* ------------------------------------------------------------- helpers
Min(S) == CHOOSE x \in S : \A y \in S : x <= y

RECURSIVE SortedSeq(_)
SortedSeq(S) == IF S = {} THEN <<>> ELSE <<Min(S)>> \o SortedSeq(S \ {Min(S)})

\* the sequences without repetition over S, of length at most k
SeqsNoDup(S, k) ==
    {s \in UNION {[1..m -> S] : m \in 0..k} :
        \A i, j \in DOMAIN s : i # j => s[i] # s[j]}

Range(s) == {s[i] : i \in DOMAIN s}

\* actionsDone.inSuccess++ / actionsDone.inError++
CountSuccess(a) == [a EXCEPT !.inSuccess = @ + 1]
CountError(a) == [a EXCEPT !.inError = @ + 1]

\* the try / catch around an item: the item counts once, as a success when it
\* ran to its end and as an error when it threw
TallyItemMutDropError(done, threw) == IF threw THEN done ELSE CountSuccess(done)

TallyItem(done, threw) == IF threw THEN CountError(done) ELSE CountSuccess(done)

\* the for loop over the items: whatever happened to an item, the next one
\* is processed
RemainingItemsMutStopOnError(items, threw) == IF threw THEN <<>> ELSE Tail(items)

RemainingItems(items, threw) == Tail(items)

\* ------------------------------------------------------ storage contract
\* UserStorage.getUsersInError(FAILED_BILLING_SYNCHRO)
GetUsersInError(us) == {u \in UserIDs : us[u].exists /\ us[u].hasSynchroError}

\* UserStorage.getUsers(notSynchronizedBillingData), sorted by user id
GetUsersNotSynchronized(us) ==
    SortedSeq({u \in UserIDs : ~us[u].exists \/ us[u].customerID = NoID})

\* UserStorage.getUserByBillingID: NoID when no user has this customerID
GetUserByBillingID(us, c) ==
    IF \E u \in UserIDs : us[u].exists /\ us[u].customerID = c
    THEN Min({u \in UserIDs : us[u].exists /\ us[u].customerID = c})
    ELSE NoID

\* UserStorage.saveUserBillingData
SaveUserBillingData(us, u, bd) == [us EXCEPT ![u] = bd]

\* BillingStorage.getInvoiceByBillingInvoiceID: the local id, NoID when none
GetInvoiceByBillingInvoiceID(invs, id) ==
    IF \E l \in DOMAIN invs : invs[l].exists /\ invs[l].invoiceID = id
    THEN Min({l \in DOMAIN invs : invs[l].exists /\ invs[l].invoiceID = id})
    ELSE NoID

\* BillingStorage.deleteInvoiceByInvoiceID
DeleteInvoiceByInvoiceID(invs, id) ==
    [l \in DOMAIN invs |->
        IF invs[l].exists /\ invs[l].invoiceID = id THEN NoInvoice ELSE invs[l]]

\* BillingStorage.saveInvoice: replaces the invoice with the local id l, or
\* inserts it under a fresh local id when it has none; returns the id
SaveInvoice(invs, l, inv) ==
    IF l = NoID THEN Append(invs, inv) ELSE [invs EXCEPT ![l] = inv]

SavedInvoiceID(invs, l) == IF l = NoID THEN Len(invs) + 1 ELSE l

\* BillingStorage.saveInvoiceDocument: the document of the invoice l, which
\* was rendered for n items
SaveInvoiceDocument(docs, l, n) == {d \in docs : d[1] # l} \cup {<<l, n>>}

\* BillingStorage.getInvoicesToPay: the open invoices, in storage order
GetInvoicesToPay(invs) ==
    SortedSeq({l \in DOMAIN invs : invs[l].exists /\ invs[l].status = "open"})

\* SettingStorage.getBillingSettings / saveBillingSettings
SaveBillingSettings(st, field, t) == [st EXCEPT ![field] = t]

\* ----------------------------------------------------- provider contract
\* getUserByEmail: the customer of the user's email, NoID when there is none
GetUserByEmail(cs, u) ==
    IF \E c \in DOMAIN cs : cs[c] = u
    THEN Min({c \in DOMAIN cs : cs[c] = u})
    ELSE NoID

\* userExists
UserExists(cs, u) == GetUserByEmail(cs, u) # NoID

\* getUser(id): whether the provider has a customer with this id
GetUser(cs, c) == c \in DOMAIN cs /\ cs[c] # NoID

\* createUser: the provider's customers after the creation
CreateUser(cs, u) == Append(cs, u)

\* the billingData of the BillingUser that createUser / updateUser return
ProviderBillingData(c) == BillingData(c, FALSE, NoDate)

\* getUpdatedUserIDsInBilling: any list of customer ids the provider issued
UpdatedUserIDsInBilling(cs) == SeqsNoDup(DOMAIN cs, MaxChanged)

\* getInvoice(id): NoInvoice when the provider has no such invoice
GetInvoice(pinv, id) ==
    IF id \in DOMAIN pinv /\ pinv[id].exists THEN pinv[id] ELSE NoInvoice

\* getUpdatedInvoiceIDsInBilling(billingUser?): any list of invoice ids the
\* provider issued, of the customer c when c is given
UpdatedInvoiceIDsInBilling(pinv, c) ==
    SeqsNoDup({i \in DOMAIN pinv : c = NoID \/ pinv[i].customerID = c}, MaxChanged)

\* chargeInvoice: only an open invoice of the provider can be paid
ChargeInvoice(pinv, id, f) ==
    IF f = "chargeInvoice" \/ GetInvoice(pinv, id).status # "open"
    THEN [threw |-> TRUE, pinvoices |-> pinv]
    ELSE [threw |-> FALSE, pinvoices |-> [pinv EXCEPT ![id].status = "paid"]]

\* ----------------------------------------------------- synchronizeUser
\* what synchronizeUser gives: whether it threw and in which call, and the
\* stores it leaves
UserResult(f, us, cs) == [threw |-> f # "none", fault |-> f, users |-> us, customers |-> cs]

SynchronizeUserMutAlwaysCreate(u, f, us, cs) ==
    IF f \in {"userExists", "createUser"} THEN UserResult(f, us, cs)
    ELSE IF f = "saveUserBillingData" THEN UserResult(f, us, CreateUser(cs, u))
    ELSE UserResult("none",
                    SaveUserBillingData(us, u, ProviderBillingData(Len(cs) + 1)),
                    CreateUser(cs, u))

SynchronizeUserMutSaveOnThrow(u, f, us, cs) ==
    IF f = "userExists" THEN UserResult(f, us, cs)
    ELSE IF ~UserExists(cs, u)
    THEN IF f = "createUser"
         THEN UserResult(f, SaveUserBillingData(us, u,
                               ProviderBillingData(Len(cs) + 1)), cs)
         ELSE IF f = "saveUserBillingData"
         THEN UserResult(f, us, CreateUser(cs, u))
         ELSE UserResult("none",
                         SaveUserBillingData(us, u,
                            ProviderBillingData(Len(cs) + 1)),
                         CreateUser(cs, u))
    ELSE IF f \in {"updateUser", "saveUserBillingData"}
         THEN UserResult(f, us, cs)
         ELSE UserResult("none",
                         SaveUserBillingData(us, u,
                            ProviderBillingData(GetUserByEmail(cs, u))),
                         cs)

SynchronizeUser(u, f, us, cs) ==
    IF f = "userExists" THEN UserResult(f, us, cs)
    ELSE IF ~UserExists(cs, u)
    THEN \* newUser = await this.createUser(user)
         IF f = "createUser" THEN UserResult(f, us, cs)
         ELSE IF f = "saveUserBillingData"
         THEN UserResult(f, us, CreateUser(cs, u))
         ELSE UserResult("none",
                         SaveUserBillingData(us, u,
                            ProviderBillingData(Len(cs) + 1)),
                         CreateUser(cs, u))
    ELSE \* newUser = await this.updateUser(user)
         IF f \in {"updateUser", "saveUserBillingData"}
         THEN UserResult(f, us, cs)
         ELSE UserResult("none",
                         SaveUserBillingData(us, u,
                            ProviderBillingData(GetUserByEmail(cs, u))),
                         cs)

\* ------------------------------------------------------------ histories
Snapshot(list) ==
    [users |-> users, invoices |-> invoices, documents |-> documents,
     settings |-> settings, customers |-> customers, pinvoices |-> pinvoices,
     list |-> list]

\* one processed item: what it was, how it ended, which write it made and
\* which call threw ("none": no call threw)
Entry(kind, id, user, outcome, call, fault) ==
    [kind |-> kind, id |-> id, user |-> user, outcome |-> outcome, call |-> call,
     fault |-> fault, prior |-> NoInvoice, provider |-> NoInvoice,
     download |-> "notInvoked"]

\* the provider write synchronizeUser made: the customers grow on createUser
UserCall(r, cs) ==
    IF Len(r.customers) > Len(cs) THEN "createUser"
    ELSE IF r.threw THEN "none" ELSE "updateUser"

Outcome(threw) == IF threw THEN "error" ELSE "success"

\* ------------------------------------------------- how a sweep finishes
\* the calls a step has invoked when its call f throws: those of the step's
\* sequence calls up to f (all of them when none throws)
RECURSIVE CallsUpTo(_, _)
CallsUpTo(calls, f) ==
    IF calls = <<>> THEN <<>>
    ELSE IF Head(calls) = f THEN <<f>>
    ELSE <<Head(calls)>> \o CallsUpTo(Tail(calls), f)

\* the sweep rejects in the call f, after the calls of the step: its caller
\* gets the exception and no tally (actionsDone keeps what the sweep had
\* counted)
Throws(op, f, calls) ==
    /\ pc' = "done"
    /\ result' = [op |-> op, outcome |-> "threw", tally |-> NewActionsDone,
                  fault |-> f, calls |-> calls]
    /\ todo' = <<>>

\* return actionsDone
Returns(op, tally) ==
    /\ pc' = "done"
    /\ result' = [op |-> op, outcome |-> "returned", tally |-> tally,
                  fault |-> "none", calls |-> <<>>]
    /\ todo' = <<>>

\* --------------------------------------------------- synchronizeUsers
\* lines 34-41: the tally starts with the users already in error
InitialTallyMutZero(us) == NewActionsDone

InitialTally(us) ==
    [inSuccess |-> 0, inError |-> Cardinality(GetUsersInError(us))]

\* lines 32-45: the calls made before the loops, in their order
SynchronizeUsersCallsMutConnectionLate ==
    <<"getUsersInError", "checkConnection", "getUsers">>

SynchronizeUsersCalls == <<"checkConnection", "getUsersInError", "getUsers">>

\* lines 32-45: connection check, users in error, users to synchronize
SynchronizeUsersBegin ==
    /\ pc = "idle"
    /\ now < MaxClock
    /\ now' = now + 1
    /\ atStart' = Snapshot(<<>>)
    /\ log' = <<>>
    /\ \E f \in {"none"} \cup Range(SynchronizeUsersCalls) :
          IF f # "none"
          THEN /\ Throws("synchronizeUsers", f,
                         CallsUpTo(SynchronizeUsersCalls, f))
               /\ actionsDone' = NewActionsDone
          ELSE /\ pc' = "newUsers"
               /\ actionsDone' = InitialTally(users)
               /\ todo' = GetUsersNotSynchronized(users)
               /\ result' = NoResult
    /\ UNCHANGED <<users, invoices, documents, settings, customers, pinvoices,
                   scopeUser, scopeData, created, events>>
    /\ UNCHANGED aside

\* lines 55-80: one user of newUsersToSyncInBilling
SynchronizeNewUser ==
    /\ pc = "newUsers"
    /\ todo # <<>>
    /\ \E f \in {"none", "userExists", "createUser", "updateUser",
                 "saveUserBillingData"} :
          LET u == Head(todo)
              r == SynchronizeUser(u, f, users, customers)
          IN /\ users' = r.users
             /\ customers' = r.customers
             /\ actionsDone' = TallyItem(actionsDone, r.threw)
             /\ todo' = RemainingItems(todo, r.threw)
             /\ log' = Append(log, Entry("new", u, u, Outcome(r.threw),
                                         UserCall(r, customers), r.fault))
             /\ created' = IF Len(r.customers) > Len(customers)
                           THEN [created EXCEPT ![u] = @ + 1] ELSE created
    /\ UNCHANGED <<invoices, documents, settings, pinvoices, now, pc, scopeUser,
                   scopeData, result, atStart, events>>
    /\ UNCHANGED aside

\* line 83: the customers changed in the provider
GetUpdatedUserIDs ==
    /\ pc = "newUsers"
    /\ todo = <<>>
    /\ \/ /\ Throws("synchronizeUsers", "getUpdatedUserIDsInBilling",
                      <<"getUpdatedUserIDsInBilling">>)
          /\ UNCHANGED <<atStart, actionsDone>>
       \/ \E ids \in UpdatedUserIDsInBilling(customers) :
             /\ pc' = "changedUsers"
             /\ todo' = ids
             /\ atStart' = [atStart EXCEPT !.list = ids]
             /\ UNCHANGED <<actionsDone, result>>
    /\ UNCHANGED <<users, invoices, documents, settings, customers, pinvoices, now,
                   scopeUser, scopeData, log, created, events>>
    /\ UNCHANGED aside

\* lines 93-147: the item of one changed customer id c when call f throws.
\* escaped: the exception is raised outside the try block and leaves the loop
SynchronizeChangedUserMutNoProviderCheck(c, f, us, cs, done) ==
    LET u == GetUserByBillingID(us, c)
        r == SynchronizeUser(u, f, us, cs)
        same == [escaped |-> FALSE, threw |-> FALSE, fault |-> "none", user |-> u,
                 users |-> us, customers |-> cs, actionsDone |-> done]
    IN IF f = "getUserByBillingID"
       THEN [same EXCEPT !.escaped = TRUE, !.fault = f, !.user = NoID]
       ELSE IF u = NoID
       THEN [same EXCEPT !.threw = TRUE, !.actionsDone = CountError(done)]
       ELSE IF f = "getUser"
       THEN [same EXCEPT !.escaped = TRUE, !.fault = f]
       ELSE [same EXCEPT
               !.threw = r.threw,
               !.fault = r.fault,
               !.users = r.users,
               !.customers = r.customers,
               !.actionsDone = TallyItem(done, r.threw)]

SynchronizeChangedUser(c, f, us, cs, done) ==
    LET u == GetUserByBillingID(us, c)
        r == SynchronizeUser(u, f, us, cs)
        same == [escaped |-> FALSE, threw |-> FALSE, fault |-> "none", user |-> u,
                 users |-> us, customers |-> cs, actionsDone |-> done]
    IN IF f = "getUserByBillingID"
       THEN [same EXCEPT !.escaped = TRUE, !.fault = f, !.user = NoID]
       ELSE IF u = NoID
       THEN [same EXCEPT !.threw = TRUE, !.actionsDone = CountError(done)]
       ELSE IF f = "getUser"
       THEN [same EXCEPT !.escaped = TRUE, !.fault = f]
       ELSE IF ~GetUser(cs, c)
       THEN IF f = "saveUserBillingData"
            THEN [same EXCEPT !.escaped = TRUE, !.fault = f,
                              !.actionsDone = CountError(done)]
            ELSE [same EXCEPT
                    !.threw = TRUE,
                    !.actionsDone = CountError(done),
                    !.users = SaveUserBillingData(us, u,
                                 [us[u] EXCEPT !.hasSynchroError = TRUE])]
       ELSE [same EXCEPT
               !.threw = r.threw,
               !.fault = r.fault,
               !.users = r.users,
               !.customers = r.customers,
               !.actionsDone = TallyItem(done, r.threw)]

\* one id of userBillingIDsChangedInBilling
SynchronizeChangedUserStep ==
    /\ pc = "changedUsers"
    /\ todo # <<>>
    /\ \E f \in {"none", "getUserByBillingID", "getUser", "userExists",
                 "createUser", "updateUser", "saveUserBillingData"} :
          LET c == Head(todo)
              r == SynchronizeChangedUser(c, f, users, customers, actionsDone)
          IN /\ users' = r.users
             /\ customers' = r.customers
             /\ log' = Append(log, Entry("changed", c, r.user,
                                 IF r.escaped THEN "escaped" ELSE Outcome(r.threw),
                                 UserCall(r, customers), r.fault))
             /\ created' = IF Len(r.customers) > Len(customers)
                           THEN [created EXCEPT ![r.user] = @ + 1] ELSE created
             /\ actionsDone' = r.actionsDone
             /\ IF r.escaped
                THEN Throws("synchronizeUsers", r.fault,
                            CallsUpTo(<<"getUserByBillingID", "getUser",
                                        "saveUserBillingData">>, r.fault))
                ELSE /\ todo' = RemainingItems(todo, r.threw)
                     /\ UNCHANGED <<pc, result>>
    /\ UNCHANGED <<invoices, documents, settings, pinvoices, now, scopeUser,
                   scopeData, atStart, events>>
    /\ UNCHANGED aside

\* lines 157-162: the watermark and the result
SynchronizeUsersEnd ==
    /\ pc = "changedUsers"
    /\ todo = <<>>
    /\ \E f \in {"none", "getBillingSettings", "saveBillingSettings"} :
          IF f # "none"
          THEN /\ Throws("synchronizeUsers", f,
                         CallsUpTo(<<"getBillingSettings",
                                     "saveBillingSettings">>, f))
               /\ UNCHANGED settings
          ELSE /\ settings' = SaveBillingSettings(settings,
                                  "usersLastSynchronizedOn", now)
               /\ Returns("synchronizeUsers", actionsDone)
    /\ UNCHANGED <<users, invoices, documents, customers, pinvoices, now,
                   actionsDone, scopeUser, scopeData, atStart, log, created,
                   events>>
    /\ UNCHANGED aside

\* ------------------------------------------------ synchronizeInvoices
\* lines 475-519: the provider's customer id of the user, NoID when
\* checkAndGetBillingUser throws its BackendError
CheckAndGetBillingUserMutNoComparison(u, bd, cs) ==
    LET c == GetUserByEmail(cs, u)
    IN IF c = NoID THEN NoID
       ELSE IF ~bd.exists \/ bd.customerID = NoID THEN NoID
       ELSE c

CheckAndGetBillingUser(u, bd, cs) ==
    LET c == GetUserByEmail(cs, u)
    IN IF c = NoID THEN NoID
       ELSE IF ~bd.exists \/ bd.customerID = NoID THEN NoID
       ELSE IF bd.customerID # c THEN NoID
       ELSE c

\* line 298: whether the invoice document is downloaded
NeedsDownloadMutItemsOnly(invoice, invoiceInBilling) ==
    ~invoice.exists \/ invoice.nbrOfItems # invoiceInBilling.nbrOfItems

NeedsDownload(invoice, invoiceInBilling) ==
    \/ ~invoice.exists
    \/ ~invoiceInBilling.downloadable
    \/ invoice.nbrOfItems # invoiceInBilling.nbrOfItems

\* lines 265-269 and 292-294: the invoice that is saved, and its local id
InvoiceToSave(invoice, invoiceInBilling, userInInvoice) ==
    [invoiceInBilling EXCEPT
        !.userID = userInInvoice,
        !.downloadable = IF invoice.exists THEN invoice.downloadable ELSE FALSE]

LocalIDToSaveMutFresh(l, invoice) == NoID

LocalIDToSave(l, invoice) == IF invoice.exists THEN l ELSE NoID

\* lines 238 and 251: what the item is; the provider's invoice is absent
\* from a stale reference (no local invoice either) or after a deletion
ItemCaseMutNoDeletion(invoiceInBilling, invoice) ==
    IF ~invoiceInBilling.exists THEN "unknown" ELSE "upsert"

ItemCase(invoiceInBilling, invoice) ==
    IF ~invoiceInBilling.exists /\ ~invoice.exists THEN "unknown"
    ELSE IF ~invoiceInBilling.exists THEN "deleted"
    ELSE "upsert"

\* lines 233-333: the item of one changed invoice id when call f throws
\* (f = "noDocument": downloadInvoiceDocument returns no document).
\* u, bd: the user the sweep is scoped to and the billingData of that object
SynchronizeInvoice(id, f, u, bd, us, invs, docs, pinv, t) ==
    LET invoiceInBilling == GetInvoice(pinv, id)
        l == GetInvoiceByBillingInvoiceID(invs, id)
        invoice == IF l = NoID THEN NoInvoice ELSE invs[l]
        userInInvoice ==
            IF u # NoID THEN u ELSE GetUserByBillingID(us, invoiceInBilling.customerID)
        userData == IF u # NoID THEN bd
                    ELSE IF userInInvoice # NoID THEN us[userInInvoice]
                    ELSE NoBillingData
        toSave == InvoiceToSave(invoice, invoiceInBilling, userInInvoice)
        invs1 == SaveInvoice(invs, LocalIDToSave(l, invoice), toSave)
        l1 == SavedInvoiceID(invs, LocalIDToSave(l, invoice))
        docs2 == SaveInvoiceDocument(docs, l1, invoiceInBilling.nbrOfItems)
        invs2 == SaveInvoice(invs1, l1, [toSave EXCEPT !.downloadable = TRUE])
        stamped == [userData EXCEPT !.invoicesLastSynchronizedOn = t]
        same == [outcome |-> "error", call |-> "none", fault |-> "none",
                 download |-> "notInvoked",
                 prior |-> invoice, provider |-> invoiceInBilling,
                 user |-> userInInvoice,
                 users |-> us, invoices |-> invs, documents |-> docs,
                 scopeData |-> bd]
        \* lines 308-312, once the invoice and its document are handled
        Stamp(r) ==
            IF ~userData.exists THEN [r EXCEPT !.fault = "TypeError"]
            ELSE IF f = "saveUserBillingData"
            THEN [r EXCEPT !.fault = f,
                           !.scopeData = IF u # NoID THEN stamped ELSE bd]
            ELSE [r EXCEPT
                    !.outcome = "success",
                    !.scopeData = IF u # NoID THEN stamped ELSE bd,
                    !.users = SaveUserBillingData(us, userInInvoice, stamped)]
        saved == [same EXCEPT !.call = "upsert", !.invoices = invs1]
    IN IF f \in {"getInvoice", "getInvoiceByBillingInvoiceID"}
       THEN [same EXCEPT !.fault = f]
       ELSE IF ItemCase(invoiceInBilling, invoice) = "unknown" THEN same
       ELSE IF ItemCase(invoiceInBilling, invoice) = "deleted"
       THEN IF f = "deleteInvoiceByInvoiceID" THEN [same EXCEPT !.fault = f]
            ELSE [same EXCEPT !.outcome = "success", !.call = "delete",
                              !.invoices = DeleteInvoiceByInvoiceID(invs, id)]
       ELSE IF u = NoID /\ f = "getUserByBillingID" THEN [same EXCEPT !.fault = f]
       ELSE IF userInInvoice = NoID THEN same
       ELSE IF f = "saveInvoice" THEN [same EXCEPT !.fault = f]
       ELSE IF ~NeedsDownload(invoice, toSave) THEN Stamp(saved)
       ELSE IF f = "downloadInvoiceDocument"
       THEN [saved EXCEPT !.fault = f, !.download = "threw"]
       ELSE IF f = "noDocument" THEN Stamp([saved EXCEPT !.download = "noDocument"])
       ELSE IF f = "saveInvoiceDocument"
       THEN [saved EXCEPT !.fault = f, !.download = "document"]
       ELSE IF f = "saveInvoiceAgain"
       THEN [saved EXCEPT !.fault = f, !.download = "document",
                          !.documents = docs2]
       ELSE Stamp([saved EXCEPT !.download = "document", !.documents = docs2,
                                !.invoices = invs2])

\* lines 208-222: the calls made before the loop, in their order, with the
\* BackendError of checkAndGetBillingUser as the call "checkAndGetBillingUser"
SynchronizeInvoicesCalls(u) ==
    <<"checkConnection">>
    \o (IF u # NoID THEN <<"getUserByEmail", "checkAndGetBillingUser">> ELSE <<>>)
    \o <<"getUpdatedInvoiceIDsInBilling">>

\* lines 208-212: the call in which the sweep is rejected before its loop
\* when the call f throws ("none": in no call); checkAndGetBillingUser throws
\* when it finds no matching customer (c = NoID) for the user u
RejectedIn(f, u, c) ==
    IF f \in {"checkConnection", "getUserByEmail"} THEN f
    ELSE IF u # NoID /\ c = NoID THEN "checkAndGetBillingUser"
    ELSE f

\* lines 202-222: connection check, the scoped user, the changed invoices
SynchronizeInvoicesBegin ==
    /\ pc = "idle"
    /\ now < MaxClock
    /\ now' = now + 1
    /\ log' = <<>>
    /\ \E u \in UserIDs \cup {NoID} :
          LET bd == IF u = NoID THEN NoBillingData ELSE users[u]
              c == IF u = NoID THEN NoID ELSE CheckAndGetBillingUser(u, bd, customers)
          IN /\ scopeUser' = u
             /\ scopeData' = bd
             /\ \E f \in ({"none"} \cup Range(SynchronizeInvoicesCalls(u)))
                               \ {"checkAndGetBillingUser"} :
                   IF RejectedIn(f, u, c) # "none"
                   THEN /\ Throws("synchronizeInvoices", RejectedIn(f, u, c),
                                  CallsUpTo(SynchronizeInvoicesCalls(u),
                                            RejectedIn(f, u, c)))
                        /\ atStart' = Snapshot(<<>>)
                        /\ actionsDone' = NewActionsDone
                   ELSE \E ids \in UpdatedInvoiceIDsInBilling(pinvoices, c) :
                           /\ pc' = "invoices"
                           /\ todo' = ids
                           /\ atStart' = Snapshot(ids)
                           /\ actionsDone' = NewActionsDone
                           /\ result' = NoResult
    /\ UNCHANGED <<users, invoices, documents, settings, customers, pinvoices,
                   created,
                   events>>
    /\ UNCHANGED aside

\* one id of invoiceIDsInBilling
SynchronizeInvoiceStep ==
    /\ pc = "invoices"
    /\ todo # <<>>
    /\ \E f \in {"none", "getInvoice", "getInvoiceByBillingInvoiceID",
                 "deleteInvoiceByInvoiceID", "getUserByBillingID", "saveInvoice",
                 "downloadInvoiceDocument", "noDocument", "saveInvoiceDocument",
                 "saveInvoiceAgain", "saveUserBillingData"} :
          LET id == Head(todo)
              r == SynchronizeInvoice(id, f, scopeUser, scopeData, users, invoices,
                                      documents, pinvoices, now)
          IN /\ users' = r.users
             /\ invoices' = r.invoices
             /\ documents' = r.documents
             /\ scopeData' = r.scopeData
             /\ actionsDone' = TallyItem(actionsDone, r.outcome # "success")
             /\ todo' = RemainingItems(todo, r.outcome # "success")
             /\ log' = Append(log,
                          [Entry("invoice", id, r.user, r.outcome, r.call,
                                 r.fault) EXCEPT
                              !.prior = r.prior, !.provider = r.provider,
                              !.download = r.download])
    /\ UNCHANGED <<settings, customers, pinvoices, now, pc, scopeUser, result,
                   atStart, created,
                   events>>
    /\ UNCHANGED aside

\* line 344: only the sweep that is not scoped to a user sets the watermark
AdvancesWatermarkMutAlways(u) == TRUE

AdvancesWatermark(u) == u = NoID

\* lines 344-350: the watermark of an unscoped sweep, and the result
SynchronizeInvoicesEnd ==
    /\ pc = "invoices"
    /\ todo = <<>>
    /\ \E f \in {"none", "getBillingSettings", "saveBillingSettings"} :
          IF ~AdvancesWatermark(scopeUser)
          THEN /\ Returns("synchronizeInvoices", actionsDone)
               /\ UNCHANGED settings
          ELSE IF f # "none"
          THEN /\ Throws("synchronizeInvoices", f,
                         CallsUpTo(<<"getBillingSettings",
                                     "saveBillingSettings">>, f))
               /\ UNCHANGED settings
          ELSE /\ settings' = SaveBillingSettings(settings,
                                  "invoicesLastSynchronizedOn", now)
               /\ Returns("synchronizeInvoices", actionsDone)
    /\ UNCHANGED <<users, invoices, documents, customers, pinvoices, now,
                   actionsDone, scopeUser, scopeData, atStart, log, created,
                   events>>
    /\ UNCHANGED aside

\* ----------------------------------------------------- chargeInvoices
\* lines 358-360: the calls made before the loop, in their order
ChargeInvoicesCalls == <<"checkConnection", "getInvoicesToPay">>

\* lines 353-360: connection check and the invoices to pay
ChargeInvoicesBegin ==
    /\ pc = "idle"
    /\ now < MaxClock
    /\ now' = now + 1
    /\ log' = <<>>
    /\ \E f \in {"none"} \cup Range(ChargeInvoicesCalls) :
          IF f # "none"
          THEN /\ Throws("chargeInvoices", f, CallsUpTo(ChargeInvoicesCalls, f))
               /\ atStart' = Snapshot(<<>>)
               /\ actionsDone' = NewActionsDone
          ELSE /\ pc' = "charge"
               /\ todo' = GetInvoicesToPay(invoices)
               /\ atStart' = Snapshot(GetInvoicesToPay(invoices))
               /\ actionsDone' = NewActionsDone
               /\ result' = NoResult
    /\ UNCHANGED <<users, invoices, documents, settings, customers, pinvoices,
                   scopeUser, scopeData, created,
                   events>>
    /\ UNCHANGED aside

\* lines 362-386: one invoice of openedInvoices
ChargeInvoiceStep ==
    /\ pc = "charge"
    /\ todo # <<>>
    /\ \E f \in {"none", "chargeInvoice"} :
          LET l == Head(todo)
              r == ChargeInvoice(pinvoices, atStart.invoices[l].invoiceID, f)
          IN /\ pinvoices' = r.pinvoices
             /\ actionsDone' = TallyItem(actionsDone, r.threw)
             /\ todo' = RemainingItems(todo, r.threw)
             /\ log' = Append(log, Entry("charge", l, NoID, Outcome(r.threw),
                                         "chargeInvoice",
                                         IF r.threw THEN "chargeInvoice" ELSE "none"))
    /\ UNCHANGED <<users, invoices, documents, settings, customers, now, pc,
                   scopeUser, scopeData, result, atStart, created,
                   events>>
    /\ UNCHANGED aside

\* line 387
ChargeInvoicesEnd ==
    /\ pc = "charge"
    /\ todo = <<>>
    /\ Returns("chargeInvoices", actionsDone)
    /\ UNCHANGED <<users, invoices, documents, settings, customers, pinvoices, now,
                   actionsDone, scopeUser, scopeData, atStart, log, created,
                   events>>
    /\ UNCHANGED aside

\* the caller has taken the result of the sweep: the next operation may start
Collect ==
    /\ pc = "done"
    /\ pc' = "idle"
    /\ result' = NoResult
    /\ atStart' = Snapshot(<<>>)
    /\ log' = <<>>
    /\ scopeUser' = NoID
    /\ scopeData' = NoBillingData
    /\ actionsDone' = NewActionsDone
    /\ UNCHANGED <<users, invoices, documents, settings, customers, pinvoices, now,
                   todo, created,
                   events>>
    /\ UNCHANGED aside

\* ---------------------------------------------------- overlapping sweeps
\* Sweeps of the same tenant that run at the same time. A sweep is suspended at
\* its awaits and the other one runs meanwhile: a step here is the code between
\* two awaits at which the stores are read or written, with the sweep's local
\* variables kept in threads[p]. Every call returns.

\* what the sweeps that run one after the other use, and the overlapping ones
\* do not
alone == <<pc, actionsDone, todo, scopeUser, scopeData, result, atStart, log,
           created, events, transaction, guard, sending, notifications>>

\* the sweep p goes on with its local variables t
Resume(p, t) == threads' = [threads EXCEPT ![p] = t]

\* the next item of the loop of the sweep t, counted as an error or a success
NextItem(t, threw) ==
    [t EXCEPT !.actionsDone = TallyItem(@, threw),
              !.todo = RemainingItems(@, threw),
              !.pc = t.loop]

\* lines 32-45 of synchronizeUsers, or lines 208-221 of an unscoped
\* synchronizeInvoices: a sweep starts while another one may be running
OverlapBegin(p) ==
    /\ threads[p].pc = "idle"
    /\ p > 1 => threads[p - 1].pc # "idle"
    /\ \/ Resume(p, [IdleThread EXCEPT
                        !.op = "synchronizeUsers",
                        !.pc = "newUsers",
                        !.loop = "newUsers",
                        !.actionsDone = InitialTally(users),
                        !.todo = GetUsersNotSynchronized(users)])
       \/ \E ids \in UpdatedInvoiceIDsInBilling(pinvoices, NoID) :
             Resume(p, [IdleThread EXCEPT
                          !.op = "synchronizeInvoices",
                          !.pc = "invoices",
                          !.loop = "invoices",
                          !.todo = ids])
    /\ UNCHANGED <<users, invoices, documents, settings, customers, pinvoices, now>>
    /\ UNCHANGED alone

\* line 166, for a user of the first loop: userExists
OverlapUserExists(p) ==
    LET t == threads[p]
    IN /\ t.pc = "newUsers"
       /\ t.todo # <<>>
       /\ Resume(p, [t EXCEPT !.user = Head(t.todo),
                              !.billingData = users[Head(t.todo)],
                              !.exists = UserExists(customers, Head(t.todo)),
                              !.pc = "createOrUpdate"])
       /\ UNCHANGED <<users, invoices, documents, settings, customers, pinvoices,
                      now>>
       /\ UNCHANGED alone

\* lines 168-172: createUser or updateUser, as userExists answered
OverlapCreateOrUpdate(p) ==
    LET t == threads[p]
    IN /\ t.pc = "createOrUpdate"
       /\ IF ~t.exists
          THEN /\ customers' = CreateUser(customers, t.user)
               /\ Resume(p, [t EXCEPT !.customerID = Len(customers) + 1,
                                      !.pc = "saveUser"])
          ELSE /\ customers' = customers
               /\ Resume(p, [t EXCEPT
                                !.customerID = GetUserByEmail(customers, t.user),
                                !.pc = "saveUser"])
       /\ UNCHANGED <<users, invoices, documents, settings, pinvoices, now>>
       /\ UNCHANGED alone

\* line 173, then lines 59-67 or 127-135: the billingData is saved and the
\* item counts as a success
OverlapSaveUser(p) ==
    LET t == threads[p]
    IN /\ t.pc = "saveUser"
       /\ users' = SaveUserBillingData(users, t.user,
                                       ProviderBillingData(t.customerID))
       /\ Resume(p, NextItem(t, FALSE))
       /\ UNCHANGED <<invoices, documents, settings, customers, pinvoices, now>>
       /\ UNCHANGED alone

\* line 83: the customers changed in the provider
OverlapGetUpdatedUserIDs(p) ==
    LET t == threads[p]
    IN /\ t.pc = "newUsers"
       /\ t.todo = <<>>
       /\ \E ids \in UpdatedUserIDsInBilling(customers) :
             Resume(p, [t EXCEPT !.pc = "changedUsers", !.loop = "changedUsers",
                                 !.todo = ids])
       /\ UNCHANGED <<users, invoices, documents, settings, customers, pinvoices,
                      now>>
       /\ UNCHANGED alone

\* lines 95-111 and 166: the local user and the provider's customer of a
\* changed id, and userExists for the user that has both
OverlapChangedUser(p) ==
    LET t == threads[p]
        c == Head(t.todo)
        u == GetUserByBillingID(users, c)
    IN /\ t.pc = "changedUsers"
       /\ t.todo # <<>>
       /\ IF u = NoID THEN Resume(p, NextItem(t, TRUE))
          ELSE IF ~GetUser(customers, c)
          THEN Resume(p, [t EXCEPT !.user = u,
                                   !.billingData = users[u],
                                   !.actionsDone = CountError(@),
                                   !.pc = "saveUserInError"])
          ELSE Resume(p, [t EXCEPT !.user = u,
                                   !.billingData = users[u],
                                   !.exists = UserExists(customers, u),
                                   !.pc = "createOrUpdate"])
       /\ UNCHANGED <<users, invoices, documents, settings, customers, pinvoices,
                      now>>
       /\ UNCHANGED alone

\* lines 112-122: the user whose customer the provider no longer has
OverlapSaveUserInError(p) ==
    LET t == threads[p]
    IN /\ t.pc = "saveUserInError"
       /\ users' = SaveUserBillingData(users, t.user,
                        [t.billingData EXCEPT !.hasSynchroError = TRUE])
       /\ Resume(p, [t EXCEPT !.todo = Tail(@), !.pc = t.loop])
       /\ UNCHANGED <<invoices, documents, settings, customers, pinvoices, now>>
       /\ UNCHANGED alone

\* lines 235-290: the provider's invoice, the local invoice and the user of a
\* changed invoice id
OverlapInvoice(p) ==
    LET t == threads[p]
        id == Head(t.todo)
        invoiceInBilling == GetInvoice(pinvoices, id)
        l == GetInvoiceByBillingInvoiceID(invoices, id)
        invoice == IF l = NoID THEN NoInvoice ELSE invoices[l]
        u == GetUserByBillingID(users, invoiceInBilling.customerID)
        read == [t EXCEPT !.invoiceInBilling = invoiceInBilling,
                          !.invoice = invoice, !.localID = l]
    IN /\ t.pc = "invoices"
       /\ t.todo # <<>>
       /\ IF ItemCase(invoiceInBilling, invoice) = "unknown"
          THEN Resume(p, NextItem(read, TRUE))
          ELSE IF ItemCase(invoiceInBilling, invoice) = "deleted"
          THEN Resume(p, [read EXCEPT !.pc = "deleteInvoice"])
          ELSE IF u = NoID THEN Resume(p, NextItem(read, TRUE))
          ELSE Resume(p, [read EXCEPT !.user = u, !.billingData = users[u],
                                      !.pc = "saveInvoice"])
       /\ UNCHANGED <<users, invoices, documents, settings, customers, pinvoices,
                      now>>
       /\ UNCHANGED alone

\* lines 252-262: the local invoice of an invoice the provider no longer has
OverlapDeleteInvoice(p) ==
    LET t == threads[p]
    IN /\ t.pc = "deleteInvoice"
       /\ invoices' = DeleteInvoiceByInvoiceID(invoices, Head(t.todo))
       /\ Resume(p, NextItem(t, FALSE))
       /\ UNCHANGED <<users, documents, settings, customers, pinvoices, now>>
       /\ UNCHANGED alone

\* lines 266-298: the invoice is saved, under the local id found at line 237
OverlapSaveInvoice(p) ==
    LET t == threads[p]
        toSave == InvoiceToSave(t.invoice, t.invoiceInBilling, t.user)
        l == LocalIDToSave(t.localID, t.invoice)
    IN /\ t.pc = "saveInvoice"
       /\ invoices' = SaveInvoice(invoices, l, toSave)
       /\ Resume(p, [t EXCEPT
                        !.invoiceInBilling = toSave,
                        !.localID = SavedInvoiceID(invoices, l),
                        !.pc = IF NeedsDownload(t.invoice, toSave)
                               THEN "download" ELSE "stamp"])
       /\ UNCHANGED <<users, documents, settings, customers, pinvoices, now>>
       /\ UNCHANGED alone

\* lines 299-306: the document is downloaded and saved, and the invoice is
\* saved again as downloadable; or the provider gives no document
OverlapDownload(p) ==
    LET t == threads[p]
    IN /\ t.pc = "download"
       /\ \/ /\ documents' = SaveInvoiceDocument(documents, t.localID,
                                                  t.invoiceInBilling.nbrOfItems)
             /\ invoices' = SaveInvoice(invoices, t.localID,
                                [t.invoiceInBilling EXCEPT !.downloadable = TRUE])
          \/ UNCHANGED <<documents, invoices>>
       /\ Resume(p, [t EXCEPT !.pc = "stamp"])
       /\ UNCHANGED <<users, settings, customers, pinvoices, now>>
       /\ UNCHANGED alone

\* lines 309-312: the user of the invoice is stamped and the item counts as a
\* success
OverlapStamp(p) ==
    LET t == threads[p]
    IN /\ t.pc = "stamp"
       /\ now' = now + 1
       /\ users' = SaveUserBillingData(users, t.user,
                       [t.billingData EXCEPT !.invoicesLastSynchronizedOn = now'])
       /\ Resume(p, NextItem(t, FALSE))
       /\ UNCHANGED <<invoices, documents, settings, customers, pinvoices>>
       /\ UNCHANGED alone

\* line 158 or 346: getBillingSettings, after the last item
OverlapGetBillingSettings(p) ==
    LET t == threads[p]
    IN /\ t.pc \in {"changedUsers", "invoices"}
       /\ t.todo = <<>>
       /\ Resume(p, [t EXCEPT !.billingSettings = settings,
                              !.pc = "saveBillingSettings"])
       /\ UNCHANGED <<users, invoices, documents, settings, customers, pinvoices,
                      now>>
       /\ UNCHANGED alone

\* lines 159-162 or 347-350: the sweep sets its watermark in the settings it
\* has read, saves them, and returns
OverlapSaveBillingSettings(p) ==
    LET t == threads[p]
    IN /\ t.pc = "saveBillingSettings"
       /\ now' = now + 1
       /\ settings' = SaveBillingSettings(t.billingSettings,
                          IF t.op = "synchronizeUsers"
                          THEN "usersLastSynchronizedOn"
                          ELSE "invoicesLastSynchronizedOn",
                          now')
       /\ Resume(p, [t EXCEPT !.pc = "done"])
       /\ UNCHANGED <<users, invoices, documents, customers, pinvoices>>
       /\ UNCHANGED alone

\* ------------------------------------------- checks of a transaction
\* lines 451-473: "BackendError" when the check throws, "returned" otherwise
CheckStartTransactionMutAnyBillingData(t) ==
    IF t.userID = NoID \/ ~t.user.exists THEN "BackendError"
    ELSE IF ~t.user.billingData.exists THEN "BackendError"
    ELSE "returned"

CheckStartTransaction(t) ==
    IF t.userID = NoID \/ ~t.user.exists THEN "BackendError"
    ELSE IF ~t.user.billingData.exists \/ t.user.billingData.customerID = NoID
    THEN "BackendError"
    ELSE "returned"

\* lines 409-449; line 431 reads transaction?.billingData.invoiceID, which
\* raises a TypeError when the transaction has no billingData
CheckStopTransaction(t) ==
    IF t.userID = NoID \/ ~t.user.exists THEN "BackendError"
    ELSE IF ~t.chargeBox THEN "BackendError"
    ELSE IF ~t.billingData.exists THEN "TypeError"
    ELSE IF t.billingData.invoiceID # NoID THEN "BackendError"
    ELSE IF ~t.user.billingData.exists THEN "BackendError"
    ELSE "returned"

\* a caller checks the transaction before it starts it
CheckStartTransactionCall ==
    /\ guard' = [op |-> "checkStartTransaction",
                 outcome |-> CheckStartTransaction(transaction)]
    /\ UNCHANGED <<users, invoices, documents, settings, customers, pinvoices, now,
                   pc, actionsDone, todo, scopeUser, scopeData, result, atStart,
                   log, created, events, transaction, threads, sending,
                   notifications>>

\* a caller checks the transaction before it stops it
CheckStopTransactionCall ==
    /\ guard' = [op |-> "checkStopTransaction",
                 outcome |-> CheckStopTransaction(transaction)]
    /\ UNCHANGED <<users, invoices, documents, settings, customers, pinvoices, now,
                   pc, actionsDone, todo, scopeUser, scopeData, result, atStart,
                   log, created, events, transaction, threads, sending,
                   notifications>>

\* ------------------------------------------------ forceSynchronizeUser
\* lines 176-191 for the user u when call f throws: whether it threw and in
\* which call, and the stores it leaves
ForceSynchronizeUser(u, f, us, cs) ==
    LET c == GetUserByEmail(cs, u)
        Save(bd, cs1) ==
            IF f = "saveUserBillingData" THEN UserResult(f, us, cs1)
            ELSE UserResult("none", SaveUserBillingData(us, u, bd), cs1)
    IN IF f = "getUserByEmail" THEN UserResult(f, us, cs)
       ELSE IF c # NoID
       THEN IF us[u].exists
            THEN \* only override user's customerID
                 Save([us[u] EXCEPT !.customerID = c, !.hasSynchroError = FALSE],
                      cs)
            ELSE IF f = "updateUser" THEN UserResult(f, us, cs)
            ELSE Save(ProviderBillingData(c), cs)
       ELSE IF f = "createUser" THEN UserResult(f, us, cs)
       ELSE Save(ProviderBillingData(Len(cs) + 1), CreateUser(cs, u))

\* the provider write forceSynchronizeUser made for the user u
ForceCall(u, r, us, cs) ==
    IF Len(r.customers) > Len(cs) THEN "createUser"
    ELSE IF ~r.threw /\ ~us[u].exists THEN "updateUser"
    ELSE "none"

\* forceSynchronizeUser(user), for any user of the tenant
ForceSynchronizeUserCall ==
    /\ pc = "idle"
    /\ \E u \in UserIDs,
          f \in {"none", "getUserByEmail", "createUser", "updateUser",
                 "saveUserBillingData"} :
          LET r == ForceSynchronizeUser(u, f, users, customers)
          IN /\ users' = r.users
             /\ customers' = r.customers
             /\ log' = <<Entry("force", u, u, Outcome(r.threw),
                               ForceCall(u, r, users, customers), r.fault)>>
             /\ created' = IF Len(r.customers) > Len(customers)
                           THEN [created EXCEPT ![u] = @ + 1] ELSE created
             /\ IF r.threw
                THEN Throws("forceSynchronizeUser", r.fault, <<r.fault>>)
                ELSE Returns("forceSynchronizeUser", NewActionsDone)
    /\ atStart' = Snapshot(<<>>)
    /\ UNCHANGED <<invoices, documents, settings, pinvoices, now, actionsDone,
                   scopeUser, scopeData, events>>
    /\ UNCHANGED aside

\* --------------------------------------------------- sendInvoiceToUser
\* line 390: sendInvoiceToUser is called with an invoice
SendInvoiceToUserBegin ==
    /\ sending.pc = "idle"
    /\ \E i \in 1..NumInvoices :
          sending' = [NotSending EXCEPT !.pc = "getTenant", !.invoice = i]
    /\ UNCHANGED <<users, invoices, documents, settings, customers, pinvoices, now,
                   pc, actionsDone, todo, scopeUser, scopeData, result, atStart,
                   log, created, events, transaction, guard, threads,
                   notifications>>

\* lines 392-406, once the awaited getTenant has settled. f = "getTenant": it
\* rejects, and so does sendInvoiceToUser; f = "noTenant": it gives no tenant,
\* and tenant.subdomain of line 400 raises a TypeError before the notification
\* is handed over; otherwise the notification is handed to the notification
\* framework, not awaited, and the invoice is returned
SendInvoiceToUser(f) ==
    IF f = "getTenant"
    THEN /\ sending' = [sending EXCEPT !.pc = "done", !.outcome = "threw",
                                       !.fault = f]
         /\ UNCHANGED notifications
    ELSE IF f = "noTenant"
    THEN /\ sending' = [sending EXCEPT !.pc = "done", !.outcome = "threw",
                                       !.fault = "TypeError"]
         /\ UNCHANGED notifications
    ELSE /\ sending' = [sending EXCEPT !.pc = "done", !.outcome = "returned"]
         /\ notifications' = [notifications EXCEPT ![sending.invoice] = "pending"]

SendInvoiceToUserEnd ==
    /\ sending.pc = "getTenant"
    /\ \E f \in {"none", "getTenant", "noTenant"} : SendInvoiceToUser(f)
    /\ UNCHANGED <<users, invoices, documents, settings, customers, pinvoices, now,
                   pc, actionsDone, todo, scopeUser, scopeData, result, atStart,
                   log, created, events, transaction, guard, threads>>

\* the caller has taken what sendInvoiceToUser gave
SendInvoiceToUserCollect ==
    /\ sending.pc = "done"
    /\ sending' = NotSending
    /\ UNCHANGED <<users, invoices, documents, settings, customers, pinvoices, now,
                   pc, actionsDone, todo, scopeUser, scopeData, result, atStart,
                   log, created, events, transaction, guard, threads,
                   notifications>>

\* line 405: the notification framework settles a notification; a rejection
\* is swallowed by catch(() => { })
NotificationSettles ==
    /\ \E i \in 1..NumInvoices, how \in {"delivered", "failed"} :
          /\ notifications[i] = "pending"
          /\ notifications' = [notifications EXCEPT ![i] = how]
    /\ UNCHANGED <<users, invoices, documents, settings, customers, pinvoices, now,
                   pc, actionsDone, todo, scopeUser, scopeData, result, atStart,
                   log, created, events, transaction, guard, threads, sending>>

\* ------------------------------------------------------- the provider
\* a customer is deleted in the provider
ProviderDeletesCustomer ==
    /\ pc = "idle"
    /\ events < MaxEvents
    /\ events' = events + 1
    /\ \E c \in DOMAIN customers :
          /\ customers[c] # NoID
          /\ customers' = [customers EXCEPT ![c] = NoID]
    /\ created' = [u \in UserIDs |-> 0]
    /\ UNCHANGED <<users, invoices, documents, settings, pinvoices, now, pc,
                   actionsDone, todo, scopeUser, scopeData, result, atStart, log>>
    /\ UNCHANGED aside

\* a customer is deleted in the provider and a new one is created there for
\* the same user
ProviderRecreatesCustomer ==
    /\ pc = "idle"
    /\ events < MaxEvents
    /\ events' = events + 1
    /\ \E c \in DOMAIN customers :
          /\ customers[c] # NoID
          /\ customers' = Append([customers EXCEPT ![c] = NoID], customers[c])
    /\ created' = [u \in UserIDs |-> 0]
    /\ UNCHANGED <<users, invoices, documents, settings, pinvoices, now, pc,
                   actionsDone, todo, scopeUser, scopeData, result, atStart, log>>
    /\ UNCHANGED aside

\* the email of a customer is changed in the provider to the email of
\* another user: the customer is no longer the one of its user
ProviderChangesCustomerEmail ==
    /\ pc = "idle"
    /\ events < MaxEvents
    /\ events' = events + 1
    /\ \E c \in DOMAIN customers, v \in UserIDs :
          /\ customers[c] # NoID
          /\ customers[c] # v
          /\ customers' = [customers EXCEPT ![c] = v]
    /\ created' = [u \in UserIDs |-> 0]
    /\ UNCHANGED <<users, invoices, documents, settings, pinvoices, now, pc,
                   actionsDone, todo, scopeUser, scopeData, result, atStart, log>>
    /\ UNCHANGED aside

\* an invoice with n items is issued to the customer c
ProviderCreatesInvoice ==
    /\ pc = "idle"
    /\ events < MaxEvents
    /\ events' = events + 1
    /\ Len(pinvoices) < NumInvoices
    /\ \E c \in DOMAIN customers, n \in 1..MaxItems :
          /\ customers[c] # NoID
          /\ pinvoices' = Append(pinvoices,
                [NoInvoice EXCEPT !.exists = TRUE, !.invoiceID = Len(pinvoices) + 1,
                                  !.customerID = c, !.nbrOfItems = n,
                                  !.status = "open"])
    /\ UNCHANGED <<users, invoices, documents, settings, customers, now, pc,
                   actionsDone, todo, scopeUser, scopeData, result, atStart, log,
                   created>>
    /\ UNCHANGED aside

\* an item is added to, or removed from, an open invoice
ProviderChangesInvoice ==
    /\ pc = "idle"
    /\ events < MaxEvents
    /\ events' = events + 1
    /\ \E i \in DOMAIN pinvoices, n \in 1..MaxItems :
          /\ pinvoices[i].exists
          /\ pinvoices[i].status = "open"
          /\ pinvoices[i].nbrOfItems # n
          /\ pinvoices' = [pinvoices EXCEPT ![i].nbrOfItems = n]
    /\ UNCHANGED <<users, invoices, documents, settings, customers, now, pc,
                   actionsDone, todo, scopeUser, scopeData, result, atStart, log,
                   created>>
    /\ UNCHANGED aside

\* an invoice is deleted in the provider
ProviderDeletesInvoice ==
    /\ pc = "idle"
    /\ events < MaxEvents
    /\ events' = events + 1
    /\ \E i \in DOMAIN pinvoices :
          /\ pinvoices[i].exists
          /\ pinvoices' = [pinvoices EXCEPT ![i].exists = FALSE]
    /\ UNCHANGED <<users, invoices, documents, settings, customers, now, pc,
                   actionsDone, todo, scopeUser, scopeData, result, atStart, log,
                   created>>
    /\ UNCHANGED aside

\* ------------------------------------------------------ specifications
\* what a user can be when the operations start: never synchronized, created
\* in the provider but not saved locally, synchronized, or synchronized and
\* then deleted in the provider and flagged in error
UserKinds == {"new", "created", "synchronized", "inError"}

InitCustomerID(kind, u) == Cardinality({v \in 1..u : kind[v] # "new"})

InitCustomers(kind) ==
    [c \in 1..Cardinality({v \in UserIDs : kind[v] # "new"}) |->
        LET v == CHOOSE w \in UserIDs : kind[w] # "new" /\ InitCustomerID(kind, w) = c
        IN IF kind[v] = "inError" THEN NoID ELSE v]

InitUsers(kind) ==
    [u \in UserIDs |->
        IF kind[u] \in {"new", "created"} THEN NoBillingData
        ELSE BillingData(InitCustomerID(kind, u), kind[u] = "inError", NoDate)]

\* the tenant with users of the given kinds, the local invoices invs with
\* their documents docs, and the provider's invoices pinv
InitTenant(kinds, invs, docs, pinv) ==
    /\ \E kind \in kinds :
          /\ users = InitUsers(kind)
          /\ customers = InitCustomers(kind)
    /\ invoices = invs
    /\ documents = docs
    /\ settings = [usersLastSynchronizedOn |-> NoDate,
                   invoicesLastSynchronizedOn |-> NoDate]
    /\ pinvoices = pinv
    /\ now = 0
    /\ pc = "idle"
    /\ actionsDone = NewActionsDone
    /\ todo = <<>>
    /\ scopeUser = NoID
    /\ scopeData = NoBillingData
    /\ result = NoResult
    /\ atStart = [users |-> users, invoices |-> invs, documents |-> docs,
                  settings |-> settings, customers |-> customers,
                  pinvoices |-> pinv, list |-> <<>>]
    /\ log = <<>>
    /\ created = [u \in UserIDs |-> 0]
    /\ events = 0

InitSweeps(kinds) == InitTenant(kinds, <<>>, {}, <<>>)

InitWith(kinds) ==
    /\ InitSweeps(kinds)
    /\ transaction = NoTransaction
    /\ guard = NoGuard
    /\ threads = [p \in Threads |-> IdleThread]
    /\ sending = NotSending
    /\ notifications = [i \in 1..NumInvoices |-> "none"]

Init == InitWith([UserIDs -> UserKinds])

\* the first user is synchronized; the others have a customer in the
\* provider that their local record does not know yet
InitInvoices ==
    InitWith({[u \in UserIDs |-> IF u = 1 THEN "synchronized" ELSE "created"]})

\* the user sweeps of a tenant, one after the other
NextUsers ==
    \/ SynchronizeUsersBegin
    \/ SynchronizeNewUser
    \/ GetUpdatedUserIDs
    \/ SynchronizeChangedUserStep
    \/ SynchronizeUsersEnd
    \/ Collect
    \/ ProviderDeletesCustomer

SpecUsers == Init /\ [][NextUsers]_vars

\* the invoice sweeps and the charge sweeps of a tenant, one after the other
NextInvoices ==
    \/ SynchronizeInvoicesBegin
    \/ SynchronizeInvoiceStep
    \/ SynchronizeInvoicesEnd
    \/ ChargeInvoicesBegin
    \/ ChargeInvoiceStep
    \/ ChargeInvoicesEnd
    \/ Collect
    \/ ProviderCreatesInvoice
    \/ ProviderChangesInvoice
    \/ ProviderDeletesInvoice
    \/ ProviderDeletesCustomer
    \/ ProviderRecreatesCustomer

SpecInvoices == InitInvoices /\ [][NextInvoices]_vars

\* the three sweeps of a tenant, one after the other in any order
NextSweeps ==
    \/ SynchronizeUsersBegin
    \/ SynchronizeNewUser
    \/ GetUpdatedUserIDs
    \/ SynchronizeChangedUserStep
    \/ SynchronizeUsersEnd
    \/ SynchronizeInvoicesBegin
    \/ SynchronizeInvoiceStep
    \/ SynchronizeInvoicesEnd
    \/ ChargeInvoicesBegin
    \/ ChargeInvoiceStep
    \/ ChargeInvoicesEnd
    \/ Collect
    \/ ProviderCreatesInvoice

SpecSweeps == InitInvoices /\ [][NextSweeps]_vars

\* the user sweeps and the invoice sweeps of a tenant, one after the other,
\* while customers are edited in the provider
NextMismatch ==
    \/ SynchronizeUsersBegin
    \/ SynchronizeNewUser
    \/ GetUpdatedUserIDs
    \/ SynchronizeChangedUserStep
    \/ SynchronizeUsersEnd
    \/ SynchronizeInvoicesBegin
    \/ SynchronizeInvoiceStep
    \/ SynchronizeInvoicesEnd
    \/ Collect
    \/ ProviderCreatesInvoice
    \/ ProviderChangesCustomerEmail

SpecMismatch == InitInvoices /\ [][NextMismatch]_vars

\* two sweeps of a tenant that overlap. The first user is synchronized, or
\* was and its customer has been deleted in the provider; the second user is
\* new. The provider has issued two invoices to the first customer: the first
\* one is not yet known locally, the second one is, and the provider has
\* deleted it since.
IssuedInvoice(i, c, n) ==
    [NoInvoice EXCEPT !.exists = TRUE, !.invoiceID = i, !.customerID = c,
                      !.nbrOfItems = n, !.status = "open"]

InitOverlap ==
    /\ InitTenant({[u \in UserIDs |-> IF u = 1 THEN k ELSE "new"] :
                     k \in {"synchronized", "inError"}},
                  <<[IssuedInvoice(2, 1, 1) EXCEPT !.userID = 1,
                                                   !.downloadable = TRUE]>>,
                  {<<1, 1>>},
                  <<IssuedInvoice(1, 1, 1),
                    [IssuedInvoice(2, 1, 1) EXCEPT !.exists = FALSE]>>)
    /\ transaction = NoTransaction
    /\ guard = NoGuard
    /\ threads = [p \in Threads |-> IdleThread]
    /\ sending = NotSending
    /\ notifications = [i \in 1..NumInvoices |-> "none"]

NextOverlap ==
    \E p \in Threads :
        \/ OverlapBegin(p)
        \/ OverlapUserExists(p)
        \/ OverlapCreateOrUpdate(p)
        \/ OverlapSaveUser(p)
        \/ OverlapGetUpdatedUserIDs(p)
        \/ OverlapChangedUser(p)
        \/ OverlapSaveUserInError(p)
        \/ OverlapInvoice(p)
        \/ OverlapDeleteInvoice(p)
        \/ OverlapSaveInvoice(p)
        \/ OverlapDownload(p)
        \/ OverlapStamp(p)
        \/ OverlapGetBillingSettings(p)
        \/ OverlapSaveBillingSettings(p)

SpecOverlap == InitOverlap /\ [][NextOverlap]_vars

\* users are synchronized by force between the invoice sweeps, while
\* customers are deleted in the provider
NextForce ==
    \/ ForceSynchronizeUserCall
    \/ SynchronizeInvoicesBegin
    \/ SynchronizeInvoiceStep
    \/ SynchronizeInvoicesEnd
    \/ Collect
    \/ ProviderCreatesInvoice
    \/ ProviderDeletesCustomer

SpecForce == InitInvoices /\ [][NextForce]_vars

\* the invoices of a tenant are sent to their users
NextNotify ==
    \/ SendInvoiceToUserBegin
    \/ SendInvoiceToUserEnd
    \/ SendInvoiceToUserCollect
    \/ NotificationSettles

SpecNotify == InitInvoices /\ [][NextNotify]_vars

\* the checks of a transaction, for any transaction
InitGuards ==
    /\ InitSweeps({[u \in UserIDs |-> "synchronized"]})
    /\ transaction \in Transactions
    /\ guard = NoGuard
    /\ threads = [p \in Threads |-> IdleThread]
    /\ sending = NotSending
    /\ notifications = [i \in 1..NumInvoices |-> "none"]

NextGuards ==
    \/ CheckStartTransactionCall
    \/ CheckStopTransactionCall

SpecGuards == InitGuards /\ [][NextGuards]_vars

\* ---------------------------------------------------------------- claims
\* what the formulas below read from a state
UsersSweepDone == pc = "done" /\ result.op = "synchronizeUsers"
UsersSweepReturned == UsersSweepDone /\ result.outcome = "returned"
InUsersSweep == pc \in {"newUsers", "changedUsers"} \/ UsersSweepDone

\* the users that were not yet synchronized, and those in error, when the
\* sweep started
NewAtStart == Range(GetUsersNotSynchronized(atStart.users))
InErrorAtStart == GetUsersInError(atStart.users)

Synchronized(bd) == bd.exists /\ bd.customerID # NoID /\ ~bd.hasSynchroError

Entries(kinds, outcomes) ==
    {i \in DOMAIN log : log[i].kind \in kinds /\ log[i].outcome \in outcomes}

\* C1: in synchronizeUsers, once the connection check has passed, the failure
\* of an operation performed for one item (of the loop over the users not yet
\* synchronized, or of the loop over the customers changed in the provider) is
\* counted in inError and the sweep goes on: no item's exception leaves its loop
\* and makes the sweep throw.
C1_ItemFailureNeverLeavesTheSweep ==
    \A i \in DOMAIN log :
        log[i].kind \in {"new", "changed"} /\ log[i].fault # "none" =>
            /\ log[i].outcome = "error"
            /\ ~(i = Len(log) /\ UsersSweepDone /\ result.outcome = "threw")

\* C2: every user that was not yet synchronized when a synchronizeUsers sweep
\* started is, at any later point of the sweep, either synchronized (a
\* billingData with the customerID of its provider customer and
\* hasSynchroError = false) or unchanged; a user whose create / update failed is
\* unchanged (no customerID is written) and counted in inError, on top of the
\* users already in error; when the sweep returns, its inError covers every
\* unchanged one.
C2_NewUserSynchronizedOrUnchanged ==
    InUsersSweep =>
        /\ \A u \in NewAtStart :
              \/ /\ Synchronized(users[u])
                 /\ users[u].customerID \in DOMAIN customers
                 /\ customers[users[u].customerID] = u
              \/ users[u] = atStart.users[u]
        /\ \A i \in Entries({"new"}, {"error"}) :
              users[log[i].id] = atStart.users[log[i].id]
        /\ Entries({"new"}, {"error"}) # {} =>
              actionsDone.inError >=
                  Cardinality(InErrorAtStart)
                  + Cardinality(Entries({"new"}, {"error"}))
        /\ UsersSweepReturned =>
              result.tally.inError >=
                  Cardinality(InErrorAtStart)
                  + Cardinality({u \in NewAtStart : users[u] = atStart.users[u]})

\* a sweep returned with one new user synchronized and another one failed
C2_Witness ==
    /\ UsersSweepReturned
    /\ \E u, v \in NewAtStart :
          /\ Synchronized(users[u])
          /\ users[v] = atStart.users[v]
          /\ \E i \in Entries({"new"}, {"error"}) :
                log[i].id = v /\ log[i].fault \in {"createUser", "saveUserBillingData"}

\* C3: over successive synchronizeUsers sweeps with no provider-side change in
\* between, createUser succeeds at most once for a local user, whatever failed
\* in the earlier sweep; and the inSuccess of a sweep counts only items of the
\* sweep: users that were not synchronized when it started and are synchronized
\* now, and customers of the changed list.
C3_NoSecondCustomer ==
    /\ \A u \in UserIDs : created[u] <= 1
    /\ \A u \in UserIDs :
          Cardinality({c \in DOMAIN customers : customers[c] = u}) <= 1
    /\ UsersSweepReturned =>
          result.tally.inSuccess <=
              Cardinality({u \in NewAtStart : Synchronized(users[u])})
              + Len(atStart.list)

\* the second sweep in a row synchronized a user whose customer the first
\* sweep had created without being able to save it
C3_Witness ==
    /\ UsersSweepReturned
    /\ now = 2
    /\ \E u \in NewAtStart :
          /\ created[u] = 1
          /\ Synchronized(users[u])
          /\ \E i \in Entries({"new"}, {"success"}) :
                log[i].id = u /\ log[i].call = "updateUser"

\* C4: a synchronizeUsers sweep that returns gives inError = the users already
\* in error when it started + the items that failed, and inSuccess = the items
\* that succeeded; with no changed customer that is inSuccess = N - F and
\* inError = E + F for N new users of which F failed; and
\* usersLastSynchronizedOn is advanced to the time of the sweep.
C4_Tally ==
    UsersSweepReturned =>
        /\ result.tally.inError =
              Cardinality(InErrorAtStart)
              + Cardinality(Entries({"new", "changed"}, {"error"}))
        /\ result.tally.inSuccess =
              Cardinality(Entries({"new", "changed"}, {"success"}))
        /\ atStart.list = <<>> =>
              /\ result.tally.inSuccess =
                    Cardinality({u \in NewAtStart : Synchronized(users[u])})
              /\ result.tally.inError =
                    Cardinality(InErrorAtStart)
                    + Cardinality({u \in NewAtStart : users[u] = atStart.users[u]})
              /\ result.tally.inSuccess + result.tally.inError =
                    Cardinality(InErrorAtStart) + Cardinality(NewAtStart)
        /\ settings.usersLastSynchronizedOn = now
        /\ settings.usersLastSynchronizedOn > atStart.settings.usersLastSynchronizedOn

\* a sweep returned with a user already in error, a new user that failed and
\* no changed customer
C4_Witness ==
    /\ UsersSweepReturned
    /\ atStart.list = <<>>
    /\ Cardinality(InErrorAtStart) = 1
    /\ \E i \in Entries({"new"}, {"error"}) : log[i].fault = "createUser"
    /\ result.tally = [inSuccess |-> 0, inError |-> 2]

InvoicesSweepDone == pc = "done" /\ result.op = "synchronizeInvoices"
InvoicesSweepReturned == InvoicesSweepDone /\ result.outcome = "returned"
InInvoicesSweep == pc = "invoices" \/ InvoicesSweepDone

ChargeReturned ==
    pc = "done" /\ result.op = "chargeInvoices" /\ result.outcome = "returned"

\* the local ids of the invoices that carry the provider's invoice id
LocalInvoicesOf(invs, id) ==
    {l \in DOMAIN invs : invs[l].exists /\ invs[l].invoiceID = id}

\* C5: after any sequence of synchronizeInvoices sweeps, scoped or not, run one
\* after the other, there is at most one local invoice per billing invoice id: a
\* sweep that finds a local invoice for the provider's invoice saves under the
\* local id of that invoice and creates no second one.
C5_OneLocalInvoicePerBillingInvoiceID ==
    /\ \A id \in DOMAIN pinvoices : Cardinality(LocalInvoicesOf(invoices, id)) <= 1
    /\ \A i \in Entries({"invoice"}, {"success", "error"}) :
          log[i].call = "upsert" /\ log[i].prior.exists =>
              /\ LocalInvoicesOf(invoices, log[i].id)
                    = LocalInvoicesOf(atStart.invoices, log[i].id)
              /\ Len(invoices) - Len(atStart.invoices) =
                    Cardinality({j \in DOMAIN log : log[j].call = "upsert"
                                                    /\ ~log[j].prior.exists})

\* a scoped sweep has updated the local invoice that an earlier sweep created
C5_Witness ==
    /\ InvoicesSweepReturned
    /\ scopeUser # NoID
    /\ \E i \in Entries({"invoice"}, {"success"}) :
          /\ log[i].call = "upsert"
          /\ log[i].prior.exists
          /\ Cardinality(LocalInvoicesOf(invoices, log[i].id)) = 1

\* C6: in synchronizeInvoices, for a changed id whose invoice the provider no
\* longer has and whose calls all return, a local invoice with this billing
\* invoice id is deleted and the item adds one to inSuccess and nothing to
\* inError; without a local invoice the item adds one to inError and nothing is
\* written.
C6_AbsentInProvider ==
    [][(/\ pc = "invoices"
        /\ todo # <<>>
        /\ Len(log') = Len(log) + 1
        /\ log'[Len(log')].fault = "none"
        /\ ~GetInvoice(pinvoices, Head(todo)).exists)
       => IF LocalInvoicesOf(invoices, Head(todo)) # {}
          THEN /\ LocalInvoicesOf(invoices', Head(todo)) = {}
               /\ \A l \in DOMAIN invoices :
                     invoices[l].invoiceID # Head(todo) => invoices'[l] = invoices[l]
               /\ actionsDone' = [actionsDone EXCEPT !.inSuccess = @ + 1]
          ELSE /\ actionsDone' = [actionsDone EXCEPT !.inError = @ + 1]
               /\ UNCHANGED <<users, invoices, documents, settings>>]_vars

\* the sweep has deleted the local invoice of an invoice deleted in the provider
C6_Witness ==
    /\ InInvoicesSweep
    /\ \E i \in Entries({"invoice"}, {"success"}) :
          /\ log[i].fault = "none"
          /\ ~log[i].provider.exists
          /\ log[i].prior.exists
          /\ log[i].call = "delete"
          /\ LocalInvoicesOf(atStart.invoices, log[i].id) # {}
          /\ LocalInvoicesOf(invoices, log[i].id) = {}

\* C7: for each provider invoice that synchronizeInvoices saves,
\* downloadInvoiceDocument is invoked if and only if there was no local invoice
\* before, or that invoice was not downloadable, or its nbrOfItems differs from
\* the provider's.
C7_DownloadIffNeeded ==
    \A i \in DOMAIN log :
        log[i].kind = "invoice" /\ log[i].call = "upsert" =>
            (log[i].download # "notInvoked"
                <=> \/ ~log[i].prior.exists
                    \/ ~log[i].prior.downloadable
                    \/ log[i].prior.nbrOfItems # log[i].provider.nbrOfItems)

\* an invoice that was downloadable and has the same number of items is saved
\* again without a download
C7_Witness ==
    \E i \in Entries({"invoice"}, {"success"}) :
        /\ log[i].call = "upsert"
        /\ log[i].prior.exists
        /\ log[i].prior.downloadable
        /\ log[i].prior.nbrOfItems = log[i].provider.nbrOfItems
        /\ log[i].download = "notInvoked"

\* C8: a local invoice with downloadable = true has a stored document that was
\* retrieved for its current nbrOfItems.
C8_DownloadableHasCurrentDocument ==
    \A l \in DOMAIN invoices :
        invoices[l].exists /\ invoices[l].downloadable =>
            <<l, invoices[l].nbrOfItems>> \in documents

\* C9: in synchronizeInvoices every changed id is processed, in the order of
\* the list, and counts exactly once, as an error when one of its calls threw:
\* inSuccess + inError is the number of ids processed so far, and the number of
\* changed ids when the sweep returns.
C9_EveryInvoiceIDCountsOnce ==
    InInvoicesSweep =>
        /\ \A i \in DOMAIN log :
              /\ i <= Len(atStart.list)
              /\ log[i].id = atStart.list[i]
              /\ log[i].fault # "none" => log[i].outcome = "error"
        /\ actionsDone.inSuccess = Cardinality(Entries({"invoice"}, {"success"}))
        /\ actionsDone.inError = Cardinality(Entries({"invoice"}, {"error"}))
        /\ actionsDone.inSuccess + actionsDone.inError = Len(log)
        /\ InvoicesSweepReturned =>
              /\ Len(log) = Len(atStart.list)
              /\ result.tally.inSuccess + result.tally.inError = Len(atStart.list)

\* a sweep over two ids returned after the first id threw and the second
\* succeeded
C9_Witness ==
    /\ InvoicesSweepReturned
    /\ Len(atStart.list) = 2
    /\ log[1].fault = "saveInvoice"
    /\ log[2].outcome = "success"
    /\ result.tally = [inSuccess |-> 1, inError |-> 1]

\* C10: chargeInvoices invokes chargeInvoice once for every invoice of
\* getInvoicesToPay, in the order of the list and whatever failed before; a
\* charge that succeeds counts in inSuccess and one that fails in inError, so
\* that inSuccess + inError is the number of invoices to pay; and no local
\* record is modified.
C10_EveryInvoiceToPayIsCharged ==
    (pc = "charge" \/ ChargeReturned) =>
        /\ invoices = atStart.invoices
        /\ documents = atStart.documents
        /\ users = atStart.users
        /\ atStart.list = GetInvoicesToPay(atStart.invoices)
        /\ \A i \in DOMAIN log :
              /\ i <= Len(atStart.list)
              /\ log[i].kind = "charge"
              /\ log[i].id = atStart.list[i]
        /\ actionsDone.inSuccess =
              Cardinality({i \in DOMAIN pinvoices :
                              /\ pinvoices[i].status = "paid"
                              /\ atStart.pinvoices[i].status # "paid"})
        /\ actionsDone.inSuccess + actionsDone.inError = Len(log)
        /\ ChargeReturned =>
              /\ Len(log) = Len(atStart.list)
              /\ result.tally = actionsDone
              /\ result.tally.inSuccess + result.tally.inError = Len(atStart.list)

\* two invoices were to pay: the first charge failed, the second succeeded
C10_Witness ==
    /\ ChargeReturned
    /\ Len(atStart.list) = 2
    /\ log[1].outcome = "error"
    /\ log[2].outcome = "success"
    /\ result.tally = [inSuccess |-> 1, inError |-> 1]

\* C11: checkStartTransaction throws a precondition error when the transaction
\* has no userID or no user, or when its user has no billingData or no
\* billingData.customerID, and returns in every other case; the check reads
\* the transaction only: it changes neither the transaction nor anything
\* stored.
C11_CheckStartTransaction ==
    /\ [](guard.op = "checkStartTransaction" =>
            (guard.outcome = "BackendError"
               <=> \/ transaction.userID = NoID
                   \/ ~transaction.user.exists
                   \/ ~transaction.user.billingData.exists
                   \/ transaction.user.billingData.customerID = NoID)
            /\ guard.outcome \in {"BackendError", "returned"})
    /\ [][guard'.op = "checkStartTransaction" =>
            UNCHANGED <<users, invoices, documents, settings, customers,
                        pinvoices, transaction>>]_vars

\* the check has thrown for a user whose billingData has no customerID
C11_Witness ==
    /\ guard = [op |-> "checkStartTransaction", outcome |-> "BackendError"]
    /\ transaction.userID # NoID
    /\ transaction.user.exists
    /\ transaction.user.billingData.exists
    /\ transaction.user.billingData.customerID = NoID

\* C12: checkStopTransaction throws a precondition error when the transaction
\* has no user, no charging station, an invoiceID in its billingData, or a user
\* without billingData; it returns without error whenever the invoice reference
\* is absent (a transaction without any billingData object included) and the
\* user, the charging station and the user's billingData are present.
C12_CheckStopTransaction ==
    guard.op = "checkStopTransaction" =>
        IF \/ transaction.userID = NoID
           \/ ~transaction.user.exists
           \/ ~transaction.chargeBox
           \/ transaction.billingData.invoiceID # NoID
           \/ ~transaction.user.billingData.exists
        THEN guard.outcome = "BackendError"
        ELSE guard.outcome = "returned"

\* the stores are as they were when the sweep started
StoresUntouched ==
    /\ users = atStart.users
    /\ invoices = atStart.invoices
    /\ documents = atStart.documents
    /\ settings = atStart.settings
    /\ customers = atStart.customers
    /\ pinvoices = atStart.pinvoices

\* C13: when checkConnection fails, synchronizeUsers, synchronizeInvoices and
\* chargeInvoices reject before the sweep starts: checkConnection is the only
\* call made, nothing stored and no watermark changes, and the caller gets the
\* failure and no tally.
C13_ConnectionFailureAborts ==
    pc = "done" /\ result.fault = "checkConnection" =>
        /\ result.op \in {"synchronizeUsers", "synchronizeInvoices", "chargeInvoices"}
        /\ result.outcome = "threw"
        /\ result.tally = NewActionsDone
        /\ result.calls = <<"checkConnection">>
        /\ log = <<>>
        /\ StoresUntouched

\* the connection check of a sweep failed after an earlier sweep had saved an
\* invoice and advanced a watermark
C13_Witness ==
    /\ pc = "done"
    /\ result.fault = "checkConnection"
    /\ result.op = "synchronizeInvoices"
    /\ invoices # <<>>
    /\ settings.invoicesLastSynchronizedOn # NoDate

\* the provider has no customer for the user u, or the local user has no
\* customerID, or the two customerIDs differ
NoMatchingCustomer(u, us, cs) ==
    \/ GetUserByEmail(cs, u) = NoID
    \/ ~us[u].exists
    \/ us[u].customerID = NoID
    \/ us[u].customerID # GetUserByEmail(cs, u)

C15_InvoiceWatermark ==
    /\ (InvoicesSweepReturned /\ scopeUser = NoID) =>
          /\ settings.invoicesLastSynchronizedOn = now
          /\ settings.invoicesLastSynchronizedOn
                > atStart.settings.invoicesLastSynchronizedOn
          /\ settings.usersLastSynchronizedOn
                = atStart.settings.usersLastSynchronizedOn
    /\ (InInvoicesSweep /\ scopeUser # NoID) => settings = atStart.settings

\* an unscoped sweep returned with an item in error and an item in success,
\* and the watermark is the time of the sweep
C15_Witness ==
    /\ InvoicesSweepReturned
    /\ scopeUser = NoID
    /\ Entries({"invoice"}, {"error"}) # {}
    /\ Entries({"invoice"}, {"success"}) # {}
    /\ settings.invoicesLastSynchronizedOn = now
    /\ atStart.settings.invoicesLastSynchronizedOn < now

\* C16: usersLastSynchronizedOn and invoicesLastSynchronizedOn never decrease,
\* also when a synchronizeUsers sweep and an unscoped synchronizeInvoices sweep
\* of the tenant overlap, each reading the billing settings, setting its
\* watermark and saving the settings.
C16_WatermarksNeverDecrease ==
    [][/\ settings'.usersLastSynchronizedOn >= settings.usersLastSynchronizedOn
       /\ settings'.invoicesLastSynchronizedOn
             >= settings.invoicesLastSynchronizedOn]_vars

\* C17: whatever the interleaving of two overlapping synchronizeInvoices sweeps
\* that both see a provider invoice not yet known locally, there is one local
\* invoice with that billingInvoiceID and not two; and whatever the
\* interleaving of two overlapping synchronizeUsers sweeps that both see a user
\* not yet synchronized, at most one provider customer is created for the user.
C17_OverlappingSweepsConverge ==
    /\ \A id \in DOMAIN pinvoices :
          (\A p \in Threads : threads[p].op \in {"none", "synchronizeInvoices"})
              => Cardinality(LocalInvoicesOf(invoices, id)) <= 1
    /\ \A u \in UserIDs :
          (\A p \in Threads : threads[p].op \in {"none", "synchronizeUsers"})
              => Cardinality({c \in DOMAIN customers : customers[c] = u}) <= 1

\* C18: in synchronizeInvoices, when the download of the document of an item
\* was attempted and failed, or gave no document, the saved invoice keeps the
\* downloadable it had before the attempt, the item counts in inSuccess and
\* the user of the invoice is stamped with the time of the sweep; when the
\* download gave a document and the item ran to its end, the saved invoice is
\* downloadable.
C18_FailedDownloadIsNoError ==
    InInvoicesSweep =>
        \A i \in DOMAIN log :
            /\ log[i].download \in {"threw", "noDocument"} =>
                  /\ \A l \in LocalInvoicesOf(invoices, log[i].id) :
                        invoices[l].downloadable = log[i].prior.downloadable
                  /\ log[i].outcome = "success"
                  /\ users[log[i].user].invoicesLastSynchronizedOn = now
            /\ (log[i].download = "document" /\ log[i].outcome = "success") =>
                  \A l \in LocalInvoicesOf(invoices, log[i].id) :
                      invoices[l].downloadable

\* C19: within one synchronizeUsers sweep, a user that was not yet
\* synchronized when the sweep started and whose customer id is also in the
\* provider's changed list is processed once: createUser / updateUser is
\* invoked at most once for the user and the user adds at most one to the
\* tally.
C19_NewAndChangedProcessedOnce ==
    InUsersSweep =>
        \A u \in NewAtStart :
            /\ Cardinality({i \in DOMAIN log :
                               /\ log[i].user = u
                               /\ log[i].call \in {"createUser", "updateUser"}}) <= 1
            /\ Cardinality({i \in Entries({"new", "changed"}, {"success", "error"}) :
                               log[i].user = u}) <= 1

\* C20: in the loop of synchronizeUsers over the customers changed in the
\* provider, when the calls of the item return: a changed id without a local
\* user adds one to inError, and the provider and the stores are not written;
\* a changed id whose local user exists and whose customer the provider no
\* longer has keeps the local user, sets its hasSynchroError and saves it with
\* the same customerID, adds one to inError, and the provider is not written.
C20_ChangedWithoutCounterpart ==
    [][(/\ pc = "changedUsers"
        /\ todo # <<>>
        /\ Len(log') = Len(log) + 1
        /\ log'[Len(log')].fault = "none")
       => IF GetUserByBillingID(users, Head(todo)) = NoID
          THEN /\ actionsDone' = [actionsDone EXCEPT !.inError = @ + 1]
               /\ log'[Len(log')].call = "none"
               /\ UNCHANGED <<users, customers, invoices, documents, settings>>
          ELSE IF ~GetUser(customers, Head(todo))
          THEN /\ users' = [users EXCEPT
                               ![GetUserByBillingID(users, Head(todo))]
                                   .hasSynchroError = TRUE]
               /\ actionsDone' = [actionsDone EXCEPT !.inError = @ + 1]
               /\ log'[Len(log')].call = "none"
               /\ UNCHANGED <<customers, invoices, documents, settings>>
          ELSE TRUE]_vars

\* the sweep has flagged a synchronized user whose customer the provider no
\* longer has, after an id without a local user
C20_Witness ==
    /\ InUsersSweep
    /\ \E i, j \in Entries({"changed"}, {"error"}) :
          /\ log[i].fault = "none" /\ log[i].user = NoID
          /\ log[j].fault = "none" /\ log[j].user # NoID
          /\ log[j].call = "none"
          /\ ~atStart.users[log[j].user].hasSynchroError
          /\ users[log[j].user].hasSynchroError
          /\ users[log[j].user].customerID = log[j].id

\* C21: no step of synchronizeUsers or of synchronizeInvoices replaces the
\* customerID of a local user that has one by another value: a local
\* customerID that is not the one of the provider's customer for the user is
\* left as it is by the sweeps.
C21_CustomerIDNeverReplaced ==
    [][\A u \in UserIDs :
          (users[u].exists /\ users[u].customerID # NoID) =>
              /\ users'[u].exists
              /\ users'[u].customerID = users[u].customerID]_vars

\* C22: sendInvoiceToUser gives the invoice back to its caller without waiting
\* for the notification to be delivered, and neither a failure of the delivery
\* nor a failure of what is done to prepare the notification makes it fail.
C22_SendInvoiceToUserNeverFails ==
    sending.pc = "done" =>
        /\ sending.outcome = "returned"
        /\ notifications[sending.invoice] \in {"pending", "delivered", "failed"}

ForceReturned ==
    pc = "done" /\ result.op = "forceSynchronizeUser" /\ result.outcome = "returned"

\* C23: forceSynchronizeUser, for one user: when the provider has no customer
\* for the user's email it creates one, otherwise it takes the existing one and
\* writes the provider (updateUser) only when the local user has no billingData;
\* when it returns, the saved billingData.customerID is that customer's, and a
\* user that already had a billingData has its hasSynchroError cleared and its
\* other billing fields kept; the watermarks are not touched.
C23_ForceSynchronizeUser ==
    ForceReturned =>
        LET u == log[1].id
            before == atStart.users[u]
            c == GetUserByEmail(atStart.customers, u)
        IN /\ users[u].exists
           /\ users[u].customerID = GetUserByEmail(customers, u)
           /\ users[u].customerID # NoID
           /\ IF c = NoID
              THEN /\ log[1].call = "createUser"
                   /\ customers = Append(atStart.customers, u)
              ELSE /\ customers = atStart.customers
                   /\ users[u].customerID = c
                   /\ log[1].call = "updateUser" <=> ~before.exists
           /\ before.exists =>
                 users[u] = [before EXCEPT !.customerID = users[u].customerID,
                                           !.hasSynchroError = FALSE]
           /\ settings = atStart.settings

====
